---- MODULE Spec2Model ----
(***************************************************************************)
(* Model of the leaderboard refresh jobs update_leaderboard.py and         *)
(* update_news.py: one run of either job reads leaderboard.json, replaces  *)
(* the timestamp, refreshes the news list from the pooled feed entries,    *)
(* (update_leaderboard only) re-scores and re-ranks every category, and    *)
(* writes the document back.                                               *)
(*                                                                         *)
(* Scores are Python floats (IEEE-754 binary64).  A non-negative float is  *)
(* modelled exactly, as the natural number value * 2^FracBits written as a *)
(* sequence of bits, least significant bit first, without high zero bits   *)
(* (zero is <<>>).  Every float operation is the exact operation followed  *)
(* by rounding to MantBits significant bits, ties to even.                 *)
(***************************************************************************)
EXTENDS Integers, Sequences, FiniteSets, TLC

\* --------------------------------------------------------------------------
\* Binary64 arithmetic on bit sequences
\* --------------------------------------------------------------------------

\* Significant bits of a binary64 mantissa.
MantBits == 53

\* Every float the model computes is a multiple of 2^-FracBits: the smallest
\* weight, 0.10 = 0x1.999999999999ap-4, has its last mantissa bit at 2^-56.
FracBits == 56

RECURSIVE Zeros(_)
Zeros(n) == IF n <= 0 THEN <<>> ELSE <<0>> \o Zeros(n - 1)

RECURSIVE Strip(_)
\* Drop the high zero bits.
Strip(s) ==
  IF s = <<>> THEN <<>>
  ELSE IF s[Len(s)] = 0 THEN Strip(SubSeq(s, 1, Len(s) - 1))
  ELSE s

RECURSIVE NatBits(_)
\* A small natural number as bits.
NatBits(n) == IF n = 0 THEN <<>> ELSE <<n % 2>> \o NatBits(n \div 2)

RECURSIVE HexBits(_)
\* Hex digits, most significant first, as bits.
HexBits(h) ==
  IF h = <<>> THEN <<>>
  ELSE LET d == h[Len(h)]
       IN  <<d % 2, (d \div 2) % 2, (d \div 4) % 2, (d \div 8) % 2>>
             \o HexBits(SubSeq(h, 1, Len(h) - 1))

Bit(s, i) == IF i <= Len(s) THEN s[i] ELSE 0

RECURSIVE AddFrom(_, _, _, _)
AddFrom(a, b, i, carry) ==
  IF i > Len(a) /\ i > Len(b)
    THEN (IF carry = 1 THEN <<1>> ELSE <<>>)
    ELSE LET v == Bit(a, i) + Bit(b, i) + carry
         IN  <<v % 2>> \o AddFrom(a, b, i + 1, v \div 2)

\* Exact sum.
AddBits(a, b) == Strip(AddFrom(a, b, 1, 0))

RECURSIVE SubFrom(_, _, _, _)
SubFrom(a, b, i, borrow) ==
  IF i > Len(a) THEN <<>>
  ELSE LET v == Bit(a, i) - Bit(b, i) - borrow
       IN  <<v % 2>> \o SubFrom(a, b, i + 1, IF v < 0 THEN 1 ELSE 0)

\* Exact difference a - b, for a >= b.
SubBits(a, b) == Strip(SubFrom(a, b, 1, 0))

RECURSIVE MulFrom(_, _, _, _)
MulFrom(a, n, i, carry) ==
  IF i > Len(a) THEN NatBits(carry)
  ELSE LET v == a[i] * n + carry
       IN  <<v % 2>> \o MulFrom(a, n, i + 1, v \div 2)

\* Exact product of a by the natural number n.
MulBits(a, n) == Strip(MulFrom(a, n, 1, 0))

RECURSIVE LessFrom(_, _, _)
LessFrom(a, b, i) ==
  IF i = 0 THEN FALSE
  ELSE IF a[i] # b[i] THEN a[i] < b[i]
  ELSE LessFrom(a, b, i - 1)

\* a < b, for two numbers written as bits on the same scale.
Less(a, b) ==
  IF Len(a) # Len(b) THEN Len(a) < Len(b) ELSE LessFrom(a, b, Len(a))

\* Round to nearest, ties to even, keeping MantBits significant bits.
RoundEven(s) ==
  IF Len(s) <= MantBits THEN s
  ELSE LET k      == Len(s) - MantBits
           kept   == SubSeq(s, k + 1, Len(s))
           guard  == s[k]
           sticky == \E i \in 1..(k - 1) : s[i] = 1
           up     == guard = 1 /\ (sticky \/ kept[1] = 1)
       IN  Zeros(k) \o (IF up THEN AddBits(kept, <<1>>) ELSE kept)

\* float + float
fadd(a, b) == RoundEven(AddBits(a, b))

\* int * float, for an int n >= 0
fmul(n, w) == RoundEven(MulBits(w, n))

\* The float nearest to the natural number n (exact for the small n used).
FromInt(n) == Zeros(FracBits) \o NatBits(n)

\* The float 0x1.<frac>p<e>, given as its 14 hex digits 1,frac and its exponent e.
FromHexFloat(h, e) == Strip(Zeros(FracBits - 52 + e) \o HexBits(h))

\* --------------------------------------------------------------------------
\* update_leaderboard.py: constant tables
\* --------------------------------------------------------------------------

\* A dict is a function from its keys; EmptyDict is {}.
EmptyDict == [k \in {} |-> 0]

Profile(pop, perf, cost, priv, inno) ==
  [k \in {"popularity", "performance", "cost", "privacy", "innovation"} |->
     CASE k = "popularity"  -> pop
       [] k = "performance" -> perf
       [] k = "cost"        -> cost
       [] k = "privacy"     -> priv
       [] k = "innovation"  -> inno]

\* The tool names, in the table's order ("Suno v3" and "DALL-E 3" stand for
\* the two names the source writes with non-ASCII letters).
DefaultTools ==
  << "ChatGPT (GPT-4o)", "Claude 3 (Opus/Sonnet)", "Gemini 1.5 (Pro/Ultra)",
     "Midjourney v6", "DALL-E 3", "Stable Diffusion XL",
     "Sora 2 (OpenAI)", "Veo 2 (Google DeepMind)", "Runway Gen-3",
     "Suno v3", "ElevenLabs", "Udio AI",
     "GPT-4o (OpenAI)", "Gemini 1.5 Ultra", "Claude 3 Opus" >>

DefaultProfiles ==
  << Profile(95, 92, 70, 70, 92), Profile(85, 94, 75, 85, 86),
     Profile(82, 88, 78, 80, 88),
     Profile(92, 90, 75, 75, 85), Profile(90, 86, 78, 70, 84),
     Profile(88, 84, 95, 92, 83),
     Profile(90, 95, 50, 72, 96), Profile(82, 92, 55, 82, 90),
     Profile(86, 82, 80, 70, 84),
     Profile(84, 85, 82, 65, 83), Profile(88, 88, 75, 78, 82),
     Profile(80, 78, 85, 65, 78),
     Profile(95, 92, 70, 70, 92), Profile(84, 88, 78, 80, 88),
     Profile(82, 94, 75, 85, 86) >>

DEFAULTS ==
  [t \in {DefaultTools[i] : i \in DOMAIN DefaultTools} |->
     DefaultProfiles[CHOOSE i \in DOMAIN DefaultTools : DefaultTools[i] = t]]

\* The keys of WEIGHTS in the dict's (insertion) order, which is the order
\* the weighted sum adds its terms in.
WeightKeys == <<"popularity", "performance", "cost", "privacy", "innovation">>

WeightKeySet == {WeightKeys[i] : i \in DOMAIN WeightKeys}

\* The weights with those of popularity and performance exchanged.
WEIGHTS_Exchanged ==
  [k \in {"popularity", "performance", "cost", "privacy", "innovation"} |->
     CASE k = "popularity"  ->
            FromHexFloat(<<1, 0, 0, 0, 0, 0, 0, 0, 0, 0, 0, 0, 0, 0>>, -2)
       [] k = "performance" ->
            FromHexFloat(<<1, 9, 9, 9, 9, 9, 9, 9, 9, 9, 9, 9, 9, 10>>, -2)
       [] k = "cost"        ->
            FromHexFloat(<<1, 9, 9, 9, 9, 9, 9, 9, 9, 9, 9, 9, 9, 10>>, -4)
       [] k = "privacy"     ->
            FromHexFloat(<<1, 9, 9, 9, 9, 9, 9, 9, 9, 9, 9, 9, 9, 10>>, -4)
       [] k = "innovation"  ->
            FromHexFloat(<<1, 3, 3, 3, 3, 3, 3, 3, 3, 3, 3, 3, 3, 3>>, -3)]

\* The float literals 0.40, 0.25, 0.10, 0.10, 0.15 as binary64 values.
WEIGHTS ==
  [k \in WeightKeySet |->
     CASE k = "popularity"  ->
            FromHexFloat(<<1, 9, 9, 9, 9, 9, 9, 9, 9, 9, 9, 9, 9, 10>>, -2)
       [] k = "performance" ->
            FromHexFloat(<<1, 0, 0, 0, 0, 0, 0, 0, 0, 0, 0, 0, 0, 0>>, -2)
       [] k = "cost"        ->
            FromHexFloat(<<1, 9, 9, 9, 9, 9, 9, 9, 9, 9, 9, 9, 9, 10>>, -4)
       [] k = "privacy"     ->
            FromHexFloat(<<1, 9, 9, 9, 9, 9, 9, 9, 9, 9, 9, 9, 9, 10>>, -4)
       [] k = "innovation"  ->
            FromHexFloat(<<1, 3, 3, 3, 3, 3, 3, 3, 3, 3, 3, 3, 3, 3>>, -3)]

\* A missing sub-score filled with 0.
Neutral_Zero == 1 - 1

\* The conservative mid value a missing sub-score is filled with.
Neutral == 70

\* --------------------------------------------------------------------------
\* JSON values of metrics_overrides.json
\* --------------------------------------------------------------------------
\* A parsed JSON value is [kind, val]: a "dict" (val: a function from keys to
\* JSON values), a "num" (val: the number) or "other" (a list, a string or
\* null; val is 0).

JDict(f) == [kind |-> "dict", val |-> f]
JNum(n)  == [kind |-> "num", val |-> n]
JOther   == [kind |-> "other", val |-> 0]

\* --------------------------------------------------------------------------
\* score_for
\* --------------------------------------------------------------------------

\* overrides.get(tool_name, {})
OverrideOf(tool_name, overrides) ==
  IF tool_name \in DOMAIN overrides.val THEN overrides.val[tool_name]
  ELSE JDict(EmptyDict)

\* The merge with the defaults winning over the overrides.
MergedProfile_DefaultsWin(tool_name, overrides) ==
  LET dflt   == IF tool_name \in DOMAIN DEFAULTS
                  THEN [k \in DOMAIN DEFAULTS[tool_name] |->
                          JNum(DEFAULTS[tool_name][k])]
                  ELSE EmptyDict
      ov     == OverrideOf(tool_name, overrides).val
      upd    == [k \in DOMAIN ov \cap WeightKeySet |-> ov[k]]
      merged == [k \in DOMAIN dflt \cup DOMAIN upd |->
                   IF k \in DOMAIN dflt THEN dflt[k] ELSE upd[k]]
  IN  [k \in DOMAIN merged \cup WeightKeySet |->
         IF k \in DOMAIN merged THEN merged[k] ELSE JNum(Neutral)]

\* DEFAULTS + overrides merged, missing keys filled: the dict `base` after
\* line 138.  Its values are JSON values.
MergedProfile(tool_name, overrides) ==
  LET dflt   == IF tool_name \in DOMAIN DEFAULTS
                  THEN [k \in DOMAIN DEFAULTS[tool_name] |->
                          JNum(DEFAULTS[tool_name][k])]
                  ELSE EmptyDict
      ov     == OverrideOf(tool_name, overrides).val
      upd    == [k \in DOMAIN ov \cap WeightKeySet |-> ov[k]]
      merged == [k \in DOMAIN dflt \cup DOMAIN upd |->
                   IF k \in DOMAIN upd THEN upd[k] ELSE dflt[k]]
  IN  [k \in DOMAIN merged \cup WeightKeySet |->
         IF k \in DOMAIN merged THEN merged[k] ELSE JNum(Neutral)]

\* score_for raises (AttributeError: the overrides or the tool's entry is no
\* dict; TypeError: a merged sub-score is no number).
ScoreRaises(tool_name, overrides) ==
  \/ overrides.kind # "dict"
  \/ OverrideOf(tool_name, overrides).kind # "dict"
  \/ \E k \in WeightKeySet : MergedProfile(tool_name, overrides)[k].kind # "num"

RECURSIVE WeightedSum(_, _, _)
\* sum(base[k]*WEIGHTS[k] for k in WEIGHTS), added left to right from 0.
WeightedSum(base, i, acc) ==
  IF i > Len(WeightKeys) THEN acc
  ELSE WeightedSum(base, i + 1,
                   fadd(acc, fmul(base[WeightKeys[i]].val, WEIGHTS[WeightKeys[i]])))

\* The float score_for returns when it does not raise.
score_for(tool_name, overrides) ==
  WeightedSum(MergedProfile(tool_name, overrides), 1, <<>>)

\* --------------------------------------------------------------------------
\* Text: a str is the sequence of its characters
\* --------------------------------------------------------------------------

UpperCase == <<"A", "B", "C", "D", "E", "F", "G", "H", "I", "J", "K", "L", "M", "N", "O", "P", "Q", "R", "S", "T", "U", "V", "W", "X", "Y", "Z">>

LowerCase == <<"a", "b", "c", "d", "e", "f", "g", "h", "i", "j", "k", "l", "m", "n", "o", "p", "q", "r", "s", "t", "u", "v", "w", "x", "y", "z">>

\* str.lower() on one character.
LowerChar(c) ==
  IF \E i \in DOMAIN UpperCase : UpperCase[i] = c
    THEN LowerCase[CHOOSE i \in DOMAIN UpperCase : UpperCase[i] = c]
    ELSE c

Lower(text) == [i \in DOMAIN text |-> LowerChar(text[i])]

\* k in blob
Contains(blob, k) ==
  \E i \in 1..(Len(blob) - Len(k) + 1) : SubSeq(blob, i, i + Len(k) - 1) = k

\* KEYWORDS of update_leaderboard.py
KEYWORDS ==
  << <<"s", "o", "r", "a">>,
     <<"v", "e", "o">>,
     <<"g", "e", "m", "i", "n", "i">>,
     <<"c", "l", "a", "u", "d", "e">>,
     <<"g", "p", "t">>,
     <<"r", "e", "a", "l", "t", "i", "m", "e">>,
     <<"t", "e", "x", "t", "-", "t", "o", "-", "v", "i", "d", "e", "o">>,
     <<"a", "g", "e", "n", "t">>,
     <<"m", "u", "l", "t", "i", "m", "o", "d", "a", "l">>,
     <<"m", "o", "d", "e", "l">>,
     <<"r", "e", "l", "e", "a", "s", "e">>,
     <<"u", "p", "d", "a", "t", "e">>,
     <<"c", "a", "p", "a", "b", "i", "l", "i", "t", "i", "e", "s">> >>

\* KEYWORDS of update_news.py (its last keyword differs)
NEWS_KEYWORDS ==
  << <<"s", "o", "r", "a">>,
     <<"v", "e", "o">>,
     <<"g", "e", "m", "i", "n", "i">>,
     <<"c", "l", "a", "u", "d", "e">>,
     <<"g", "p", "t">>,
     <<"r", "e", "a", "l", "t", "i", "m", "e">>,
     <<"t", "e", "x", "t", "-", "t", "o", "-", "v", "i", "d", "e", "o">>,
     <<"a", "g", "e", "n", "t">>,
     <<"m", "u", "l", "t", "i", "m", "o", "d", "a", "l">>,
     <<"m", "o", "d", "e", "l">>,
     <<"r", "e", "l", "e", "a", "s", "e">>,
     <<"u", "p", "d", "a", "t", "e">>,
     <<"c", "a", "p", "a", "b", "i", "l", "i", "t", "y">> >>

\* looks_relevant, with the module's keyword list
looks_relevant(title, desc, keywords) ==
  LET blob == Lower(title \o <<" ">> \o desc)
  IN  \E i \in DOMAIN keywords : Contains(blob, keywords[i])

IsSpace(c) == c \in {" ", "\t", "\n"}

RECURSIVE StripTags(_, _)
\* re.sub(r"<[^>]+>", "", text), scanning from position i: a "<" followed by
\* at least one character other than ">" and then a ">" is removed with all
\* between them.
StripTags(text, i) ==
  IF i > Len(text) THEN <<>>
  ELSE IF /\ text[i] = "<"
          /\ i + 1 <= Len(text)
          /\ text[i + 1] # ">"
          /\ \E j \in (i + 2)..Len(text) : text[j] = ">"
    THEN LET j == CHOOSE j \in (i + 2)..Len(text) :
                    /\ text[j] = ">"
                    /\ \A m \in (i + 2)..(j - 1) : text[m] # ">"
         IN  StripTags(text, j + 1)
    ELSE <<text[i]>> \o StripTags(text, i + 1)

RECURSIVE CollapseSpace(_, _)
\* re.sub(r"\s+", " ", t): each run of whitespace becomes one space.
CollapseSpace(t, i) ==
  IF i > Len(t) THEN <<>>
  ELSE IF IsSpace(t[i])
    THEN (IF i > 1 /\ IsSpace(t[i - 1]) THEN <<>> ELSE <<" ">>)
           \o CollapseSpace(t, i + 1)
    ELSE <<t[i]>> \o CollapseSpace(t, i + 1)

\* str.strip() of a text whose only whitespace is single spaces.
Trim(t) ==
  LET a == IF t # <<>> /\ t[1] = " " THEN 2 ELSE 1
      b == IF t # <<>> /\ t[Len(t)] = " " THEN Len(t) - 1 ELSE Len(t)
  IN  SubSeq(t, a, b)

clean_html(text) == Trim(CollapseSpace(StripTags(text, 1), 1))

\* The longest summary kept whole, and the characters kept of a longer one.
SummaryMax == 220
SummaryKeep == 217

\* The one-character ellipsis glyph (U+2026).
Ellipsis == "..."

\* A feed entry is the tuple <<title, link, pub, desc>>; title and desc are
\* texts, link and pub are opaque strings ("" when missing).
to_news_obj(t, link, pub, desc) ==
  LET summary == clean_html(desc)
  IN  [title   |-> t,
       date    |-> pub,
       summary |-> IF Len(summary) > SummaryMax
                     THEN SubSeq(summary, 1, SummaryKeep) \o <<Ellipsis>>
                     ELSE summary,
       url     |-> link]

\* --------------------------------------------------------------------------
\* list.sort(key=..., reverse=True): stable, descending
\* --------------------------------------------------------------------------

\* The sort without reverse=True: smallest key first.
SortDesc_Ascending(s) ==
  LET RECURSIVE Insert(_, _)
      Insert(acc, x) ==
        IF acc = <<>> THEN <<x>>
        ELSE IF Less(x[1], acc[1][1]) THEN <<x>> \o acc
        ELSE <<acc[1]>> \o Insert(Tail(acc), x)
      RECURSIVE From(_, _)
      From(i, acc) ==
        IF i > Len(s) THEN acc ELSE From(i + 1, Insert(acc, s[i]))
  IN  From(1, <<>>)

\* The sort done as an ascending sort reversed: largest key first, but
\* elements with equal keys in reverse order.
SortDesc_TiesReversed(s) ==
  LET RECURSIVE Insert(_, _)
      Insert(acc, x) ==
        IF acc = <<>> THEN <<x>>
        ELSE IF ~Less(x[1], acc[1][1]) THEN <<x>> \o acc
        ELSE <<acc[1]>> \o Insert(Tail(acc), x)
      RECURSIVE From(_, _)
      From(i, acc) ==
        IF i > Len(s) THEN acc ELSE From(i + 1, Insert(acc, s[i]))
  IN  From(1, <<>>)

\* s sorted by its elements' keys, their first components x[1], largest key
\* first.  Each element is placed behind every element whose key is not
\* below its own, so elements with equal keys keep their order.  A key is a
\* number written as bits: a float score, or the int 0 or 1.
SortDesc(s) ==
  LET RECURSIVE Insert(_, _)
      Insert(acc, x) ==
        IF acc = <<>> THEN <<x>>
        ELSE IF Less(acc[1][1], x[1]) THEN <<x>> \o acc
        ELSE <<acc[1]>> \o Insert(Tail(acc), x)
      RECURSIVE From(_, _)
      From(i, acc) ==
        IF i > Len(s) THEN acc ELSE From(i + 1, Insert(acc, s[i]))
  IN  From(1, <<>>)

\* --------------------------------------------------------------------------
\* News selection (both jobs)
\* --------------------------------------------------------------------------

MAX_NEWS == 10
MAX_ITEMS == 5

RECURSIVE Scored(_, _, _)
\* The list `ranked` before its sort: <<score, entry>> for each pool entry
\* that has a title and a link, score 1 for a relevant entry and else 0.
Scored(pool, keywords, i) ==
  IF i > Len(pool) THEN <<>>
  ELSE LET e == pool[i]
       IN  (IF e[1] = <<>> \/ e[2] = "" THEN <<>>
            ELSE << <<NatBits(IF looks_relevant(e[1], e[4], keywords)
                                THEN 1 ELSE 0),
                      e>> >>)
             \o Scored(pool, keywords, i + 1)

\* The list `ranked` after ranked.sort(key=lambda x: x[0], reverse=True).
Ranked(pool, keywords) == SortDesc(Scored(pool, keywords, 1))

RECURSIVE Walk_NeverSeen(_, _, _, _, _)
\* The loop without seen.add: no entry is ever skipped.
Walk_NeverSeen(ranked, i, seen, news, max) ==
  IF i > Len(ranked) THEN news
  ELSE LET e == ranked[i][2]
       IN  IF <<e[1], e[2]>> \in seen
             THEN Walk_NeverSeen(ranked, i + 1, seen, news, max)
             ELSE LET grown == Append(news, to_news_obj(e[1], e[2], e[3], e[4]))
                  IN  IF Len(grown) >= max THEN grown
                      ELSE Walk_NeverSeen(ranked, i + 1, seen, grown, max)

RECURSIVE Walk(_, _, _, _, _)
\* The loop over `ranked` from position i, with the set `seen` and the list
\* `news` so far; it stops when the list holds `max` items.
Walk(ranked, i, seen, news, max) ==
  IF i > Len(ranked) THEN news
  ELSE LET e == ranked[i][2]
       IN  IF <<e[1], e[2]>> \in seen
             THEN Walk(ranked, i + 1, seen, news, max)
             ELSE LET grown == Append(news, to_news_obj(e[1], e[2], e[3], e[4]))
                  IN  IF Len(grown) >= max THEN grown
                      ELSE Walk(ranked, i + 1, seen \cup {<<e[1], e[2]>>},
                                grown, max)

\* The news list a run selects from the pool.
SelectNews(pool, keywords, max) == Walk(Ranked(pool, keywords), 1, {}, <<>>, max)

\* --------------------------------------------------------------------------
\* Dicts, the timestamp, load_overrides
\* --------------------------------------------------------------------------

\* d.get(k, dflt)
Get(d, k, dflt) == IF k \in DOMAIN d THEN d[k] ELSE dflt

\* d[k] = v
Put(d, k, v) == [x \in DOMAIN d \cup {k} |-> IF x = k THEN v ELSE d[x]]

Pad2(n) == IF n < 10 THEN "0" \o ToString(n) ELSE ToString(n)

\* strftime("%B %d, %Y - %I:%M %p UTC") of an instant [date, hour, minute]:
\* the hour on the 12-hour clock, zero-padded, with AM or PM.
Stamp(now) ==
  now.date \o " - "
    \o Pad2(IF now.hour % 12 = 0 THEN 12 ELSE now.hour % 12)
    \o ":" \o Pad2(now.minute)
    \o (IF now.hour < 12 THEN " AM" ELSE " PM") \o " UTC"

\* metrics_overrides.json is [kind, val]: "missing", "unparseable" (val 0),
\* or a parsed JSON value.
FileMissing == [kind |-> "missing", val |-> 0]
FileUnparseable == [kind |-> "unparseable", val |-> 0]

load_overrides(file) ==
  IF file.kind = "missing" THEN JDict(EmptyDict)
  ELSE IF file.kind = "unparseable" THEN JDict(EmptyDict)
  ELSE file

\* --------------------------------------------------------------------------
\* Inputs
\* --------------------------------------------------------------------------

\* The rows of one category, at most.
MaxRows == 4
\* The pooled feed entries of one run, at most.
MaxPool == 2

\* The instant the runs take place at.
Times == { [date |-> "March 02, 2025", hour |-> 17, minute |-> 30] }

\* The rows a document is built from: a known tool with a stale rank, a known
\* tool with another stale rank, an unknown tool without a rank, and a row
\* with neither a tool nor a rank.
RowShapes ==
  { [k \in {"tool", "rank"} |-> IF k = "tool" THEN "ElevenLabs" ELSE "3rd"],
    [k \in {"tool", "rank"} |-> IF k = "tool" THEN "Udio AI" ELSE "1st"],
    [k \in {"tool"} |-> "Unknown Tool"],
    EmptyDict }

\* The row lists of n rows; the row at position i carries the url "u<i>".
RowLists(n) ==
  { [i \in 1..n |-> Put(f[i], "url", "u" \o ToString(i))] :
      f \in [1..n -> RowShapes] }

\* The categories with n rows; one without rows may lack the rows key.
Categories(n) ==
  { [k \in {"name", "rows"} |-> IF k = "name" THEN "Audio" ELSE rows] :
      rows \in RowLists(n) }
    \cup (IF n = 0 THEN {[k \in {"name"} |-> "Audio"]} ELSE {})

\* The category of the end-to-end scenario.
ScenarioRows ==
  << [k \in {"tool"} |-> "Udio AI"],
     [k \in {"tool"} |-> "ElevenLabs"],
     [k \in {"tool"} |-> "Unknown Tool"] >>

ScenarioCategory ==
  [k \in {"name", "rows"} |-> IF k = "name" THEN "Voice" ELSE ScenarioRows]

\* The category lists of a document: none, one category of at most MaxRows
\* rows, or a category of at most one row followed by the scenario's.
CategoryLists ==
  {<<>>}
    \cup { <<c>> : c \in UNION { Categories(n) : n \in 0..MaxRows } }
    \cup { <<c, ScenarioCategory>> : c \in Categories(0) \cup Categories(1) }

OldNews ==
  << [title |-> <<"O", "l", "d">>, date |-> "Sun", summary |-> <<>>,
      url |-> "l0"] >>

\* A document with the given categories, a stale timestamp and old news.
Document(cats) ==
  [k \in {"timestamp", "news", "categories"} |->
     CASE k = "timestamp"  -> "stale"
       [] k = "news"       -> OldNews
       [] k = "categories" -> cats]

\* The same without the categories key.
DocumentWithoutCategories ==
  [k \in {"timestamp", "news"} |-> IF k = "timestamp" THEN "stale" ELSE OldNews]

Documents ==
  { Document(cats) : cats \in CategoryLists } \cup {DocumentWithoutCategories}

\* An overrides dict with one tool's entry.
OneEntry(tool_name, entry) == JDict([t \in {tool_name} |-> entry])

\* The states of metrics_overrides.json: missing, not JSON, a JSON list, a
\* well-formed mapping (with a key score_for ignores), a mapping whose entry
\* is no dict, and a mapping whose sub-score is no number.
OverrideFiles ==
  { FileMissing,
    FileUnparseable,
    JOther,
    OneEntry("Udio AI",
             JDict([k \in {"popularity", "speed"} |->
                      IF k = "popularity" THEN JNum(100) ELSE JOther])),
    OneEntry("ElevenLabs", JOther),
    OneEntry("Unknown Tool", JDict([k \in {"cost"} |-> JOther])) }

\* Feed entries <<title, link, pub, desc>>: EntryA and EntryB share title and
\* link, and only EntryB is relevant; EntryD has no title and EntryE no
\* link.
EntryA ==
  << <<"H", "i">>, "l1", "Mon",
     <<"<", "b", ">", "o", "l", "d", "<", "/", "b", ">", " ", " ", "x">> >>
EntryB == << <<"H", "i">>, "l1", "Tue", <<"V", "e", "o", " ", "2">> >>
EntryD == << <<>>, "l3", "Wed", <<"g", "p", "t">> >>
EntryE == << <<"H", "i">>, "", "Thu", <<"g", "p", "t">> >>

Entries == {EntryA, EntryB, EntryD, EntryE}

\* The pools of at most MaxPool entries.
Pools == UNION { [1..n -> Entries] : n \in 0..MaxPool }

\* The pool of the runs whose subject is the re-ranking: every feed is down
\* or empty.
FewPools == { <<>> }

\* SelectNews on the pools, for each job's keywords and maximum, computed
\* once (SelectNews is a pure function of its arguments).
NewsTable ==
  [job \in {"update_leaderboard", "update_news"} |->
     [p \in Pools |->
        IF job = "update_leaderboard" THEN SelectNews(p, KEYWORDS, MAX_NEWS)
        ELSE SelectNews(p, NEWS_KEYWORDS, MAX_ITEMS)]]

\* The news list the job selects from the pool.
NewsOf(pool, job) ==
  IF pool \in Pools THEN NewsTable[job][pool]
  ELSE IF job = "update_leaderboard" THEN SelectNews(pool, KEYWORDS, MAX_NEWS)
  ELSE SelectNews(pool, NEWS_KEYWORDS, MAX_ITEMS)

\* The tool names of the documents' rows, and the overrides a run may load.
RowTools == {"ElevenLabs", "Udio AI", "Unknown Tool", ""}

LoadedOverrides == { load_overrides(file) : file \in OverrideFiles }

\* score_for's results on the documents' tools, computed once (score_for is
\* a pure function of its arguments and the constant tables).
ScoreTable ==
  [t \in RowTools |->
     [o \in LoadedOverrides |->
        IF ScoreRaises(t, o) THEN <<>> ELSE score_for(t, o)]]

\* score_for(tool_name, overrides), looked up when the table holds it.
ScoreOf(tool_name, overrides) ==
  IF tool_name \in RowTools /\ overrides \in LoadedOverrides
    THEN ScoreTable[tool_name][overrides]
    ELSE score_for(tool_name, overrides)

\* --------------------------------------------------------------------------
\* Re-ranking
\* --------------------------------------------------------------------------

\* ordinal without its table of the first three: 1th, 2th, 3th.
ordinal_AlwaysTh(n) == ToString(n) \o "th"

ordinal(n) ==
  CASE n = 1 -> "1st"
    [] n = 2 -> "2nd"
    [] n = 3 -> "3rd"
    [] OTHER -> ToString(n) \o "th"

\* row.get("tool", "")
ToolOf(row) == Get(row, "tool", "")

\* The list `scored` of a category's rows.
ScoredRows(rows, overrides) ==
  [i \in 1..Len(rows) |-> <<ScoreOf(ToolOf(rows[i]), overrides), rows[i]>>]

\* new_rows built from the tool and the rank alone, not from a copy of the
\* row.
NewRows_ToolAndRank(rows, overrides) ==
  LET scored == SortDesc(ScoredRows(rows, overrides))
  IN  [i \in 1..Len(scored) |->
         [k \in {"tool", "rank"} |->
            IF k = "tool" THEN ToolOf(scored[i][2]) ELSE ordinal(i)]]

\* The list new_rows: the rows sorted high to low, each a copy with its rank
\* key set.
NewRows(rows, overrides) ==
  LET scored == SortDesc(ScoredRows(rows, overrides))
  IN  [i \in 1..Len(scored) |-> Put(scored[i][2], "rank", ordinal(i))]

\* One pass of the loop over the categories: category["rows"] = new_rows.
ReRank(category, overrides) ==
  Put(category, "rows", NewRows(Get(category, "rows", <<>>), overrides))

\* Some score_for call of the re-ranking loop raises.
ReRankRaises(data, overrides) ==
  LET cats == Get(data, "categories", <<>>)
  IN  \E c \in 1..Len(cats) :
        LET rows == Get(cats[c], "rows", <<>>)
        IN  \E r \in 1..Len(rows) : ScoreRaises(ToolOf(rows[r]), overrides)

\* The document after the loop over data.get("categories", []).
ReRankAll(data, overrides) ==
  IF "categories" \in DOMAIN data
    THEN Put(data, "categories",
             [c \in 1..Len(data["categories"]) |->
                ReRank(data["categories"][c], overrides)])
    ELSE data

\* Steps 1 and 2 of both jobs: the timestamp set, the news replaced when
\* the selection is not empty.
Refreshed(data, pool, now, job) ==
  LET stamped == Put(data, "timestamp", Stamp(now))
      news    == NewsOf(pool, job)
  IN  IF news # <<>> THEN Put(stamped, "news", news) ELSE stamped

\* --------------------------------------------------------------------------
\* State
\* --------------------------------------------------------------------------

VARIABLES
  leaderboard,     \* the document in leaderboard.json, a dict
  overrides_file,  \* metrics_overrides.json
  last,            \* the last step: which job ran (op), with what pool at
                   \* what instant (now), whether it wrote the document
                   \* (ok), whether the categories on disk were written by
                   \* a re-ranking under the present overrides file
                   \* (ranked), and whether the step re-ranked such
                   \* categories again (again)
  call             \* a call of score_for: its arguments and its result

vars == <<leaderboard, overrides_file, last, call>>

NoPool == <<>>
NoTime == [date |-> "", hour |-> 0, minute |-> 0]

\* --------------------------------------------------------------------------
\* Operations
\* --------------------------------------------------------------------------

\* update_leaderboard.main with the feeds yielding `pool` at instant `now`.
\* A raising score_for ends the run before the document is written.
UpdateLeaderboard(pool, now) ==
  LET data      == Refreshed(leaderboard, pool, now, "update_leaderboard")
      overrides == load_overrides(overrides_file)
  IN  /\ IF ReRankRaises(data, overrides)
           THEN /\ leaderboard' = leaderboard
                /\ last' = [op |-> "update_leaderboard", ok |-> FALSE,
                            pool |-> pool, now |-> now,
                            ranked |-> last.ranked, again |-> FALSE]
           ELSE /\ leaderboard' = ReRankAll(data, overrides)
                /\ last' = [op |-> "update_leaderboard", ok |-> TRUE,
                            pool |-> pool, now |-> now,
                            ranked |-> TRUE, again |-> last.ranked]
      /\ UNCHANGED <<overrides_file, call>>

\* update_news.main with the feeds yielding `pool` at instant `now`.
UpdateNews(pool, now) ==
  /\ leaderboard' = Refreshed(leaderboard, pool, now, "update_news")
  /\ last' = [op |-> "update_news", ok |-> TRUE, pool |-> pool, now |-> now,
              ranked |-> last.ranked, again |-> FALSE]
  /\ UNCHANGED <<overrides_file, call>>

\* The maintainer replaces, creates or removes metrics_overrides.json.
EditOverrides(file) ==
  /\ file # overrides_file
  /\ overrides_file' = file
  /\ last' = [op |-> "edit", ok |-> TRUE, pool |-> NoPool, now |-> NoTime,
              ranked |-> FALSE, again |-> FALSE]
  /\ UNCHANGED <<leaderboard, call>>

\* score_for called on the arguments held in `call`.
CallScoreFor ==
  /\ ~call.done
  /\ call' = [call EXCEPT
                !.done = TRUE,
                !.raised = ScoreRaises(call.tool_name, call.overrides),
                !.ret = IF ScoreRaises(call.tool_name, call.overrides)
                          THEN <<>>
                          ELSE score_for(call.tool_name, call.overrides)]
  /\ UNCHANGED <<leaderboard, overrides_file, last>>

\* No call of score_for.
NoCall ==
  [tool_name |-> "", overrides |-> JDict(EmptyDict), done |-> FALSE,
   raised |-> FALSE, ret |-> <<>>]

NoStep ==
  [op |-> "none", ok |-> TRUE, pool |-> NoPool, now |-> NoTime,
   ranked |-> FALSE, again |-> FALSE]

\* --------------------------------------------------------------------------
\* Specification of the jobs, over the documents
\* --------------------------------------------------------------------------

Init ==
  /\ leaderboard \in Documents
  /\ overrides_file \in OverrideFiles
  /\ last = NoStep
  /\ call = NoCall

Next ==
  \/ \E pool \in FewPools, now \in Times : UpdateLeaderboard(pool, now)
  \/ \E pool \in FewPools, now \in Times : UpdateNews(pool, now)
  \/ \E file \in OverrideFiles : EditOverrides(file)

Spec == Init /\ [][Next]_vars

\* --------------------------------------------------------------------------
\* Specification of the jobs, over the feeds
\* --------------------------------------------------------------------------

\* The documents of the runs whose subject is the news: with old news, with
\* an empty news list or without the news key; with the scenario's category
\* or without the categories key.
NewsDocuments ==
  { [k \in ({"timestamp"} \cup present) |->
       CASE k = "timestamp"  -> "stale"
         [] k = "news"       -> news
         [] k = "categories" -> <<ScenarioCategory>>] :
      present \in SUBSET {"news", "categories"}, news \in {<<>>, OldNews} }

InitNews ==
  /\ leaderboard \in NewsDocuments
  /\ overrides_file = FileMissing
  /\ last = NoStep
  /\ call = NoCall

NextNews ==
  \/ \E pool \in Pools, now \in Times : UpdateLeaderboard(pool, now)
  \/ \E pool \in Pools, now \in Times : UpdateNews(pool, now)

SpecNews == InitNews /\ [][NextNews]_vars

\* --------------------------------------------------------------------------
\* Specification of score_for, over its arguments
\* --------------------------------------------------------------------------

\* The largest sub-score (the factors are 0-100).
MaxSubScore == 100

\* The overrides {tool_name: {"cost": c}}.
CostOnly(tool_name, c) == OneEntry(tool_name, JDict([k \in {"cost"} |-> JNum(c)]))

ScoreTools == DOMAIN DEFAULTS \cup {"Unknown Tool", ""}

\* The overrides score_for is called with for a tool: none, a cost of the
\* tool, an entry of another tool, and the malformed ones.
ScoreOverrides(tool_name) ==
  { JDict(EmptyDict), CostOnly("Udio AI", 10), JOther,
    OneEntry(tool_name, JOther),
    OneEntry(tool_name, JDict([k \in {"cost"} |-> JOther])) }
    \cup { CostOnly(tool_name, c) : c \in 0..MaxSubScore }

InitScore ==
  /\ leaderboard = DocumentWithoutCategories
  /\ overrides_file = FileMissing
  /\ last = NoStep
  /\ \E t \in ScoreTools : \E o \in ScoreOverrides(t) :
       call = [tool_name |-> t, overrides |-> o, done |-> FALSE,
               raised |-> FALSE, ret |-> <<>>]

NextScore == CallScoreFor

SpecScore == InitScore /\ [][NextScore]_vars

\* --------------------------------------------------------------------------
\* Properties
\* --------------------------------------------------------------------------

CategoriesOf(data) == Get(data, "categories", <<>>)
RowsOf(category) == Get(category, "rows", <<>>)

\* A row without its rank.
Unranked(row) == [k \in DOMAIN row \ {"rank"} |-> row[k]]

\* The last step was an update_leaderboard run that wrote the document.
RanLeaderboard == last.op = "update_leaderboard" /\ last.ok

\* The ordinal strings, written out.
OrdinalNames == <<"1st", "2nd", "3rd", "4th", "5th", "6th", "7th", "8th">>

OrdinalName(i) ==
  IF i <= Len(OrdinalNames) THEN OrdinalNames[i] ELSE ToString(i) \o "th"

\* C1: after a run of update_leaderboard.main every category has a rows list
\* whose ranks, in output order, are 1st, 2nd, 3rd, 4th, ..., one per
\* position and none repeated; a category of no rows has the empty list.
C1_RanksAreOrdinals ==
  RanLeaderboard =>
    \A c \in 1..Len(CategoriesOf(leaderboard)) :
      LET category == CategoriesOf(leaderboard)[c]
      IN  /\ "rows" \in DOMAIN category
          /\ \A i \in 1..Len(category["rows"]) :
               /\ "rank" \in DOMAIN category["rows"][i]
               /\ category["rows"][i]["rank"] = OrdinalName(i)
               /\ \A j \in 1..Len(category["rows"]) :
                    j # i => category["rows"][j]["rank"]
                               # category["rows"][i]["rank"]

\* A run has ranked a category of four rows or more and one of none.
C1_Witness ==
  /\ RanLeaderboard
  /\ \E c \in 1..Len(CategoriesOf(leaderboard)) :
       /\ Len(RowsOf(CategoriesOf(leaderboard)[c])) >= 4
       /\ RowsOf(CategoriesOf(leaderboard)[c])[4]["rank"] = "4th"

\* `out` holds the rows of `in` by non-increasing score, rows of equal score
\* in the order they have in `in`.
IsStableDescending(in, out, overrides) ==
  LET Sc(row) == ScoreOf(ToolOf(row), overrides)
  IN  /\ Len(out) = Len(in)
      /\ \A i, j \in 1..Len(out) : i < j => ~Less(Sc(out[i]), Sc(out[j]))
      /\ \A p, q \in 1..Len(in) :
           (p < q /\ Sc(in[p]) = Sc(in[q])) =>
             \E i, j \in 1..Len(out) :
               /\ i < j
               /\ Unranked(out[i]) = Unranked(in[p])
               /\ Unranked(out[j]) = Unranked(in[q])

\* C2: the rows a run of update_leaderboard.main writes for a category are
\* the input rows in non-increasing order of score_for(row.tool, overrides),
\* and two rows of equal score, of the same tool or not, keep the relative
\* order they had in the input.
C2_StableDescendingSort ==
  [][ (last'.op = "update_leaderboard" /\ last'.ok) =>
        /\ Len(CategoriesOf(leaderboard')) = Len(CategoriesOf(leaderboard))
        /\ \A c \in 1..Len(CategoriesOf(leaderboard)) :
             IsStableDescending(RowsOf(CategoriesOf(leaderboard)[c]),
                                RowsOf(CategoriesOf(leaderboard')[c]),
                                load_overrides(overrides_file)) ]_vars

\* A run has moved a row to the front and left two rows of equal score and
\* different tool names (an unknown tool, and no tool) in their input order.
C2_Witness ==
  /\ RanLeaderboard
  /\ \E c \in 1..Len(CategoriesOf(leaderboard)) :
       LET rows == RowsOf(CategoriesOf(leaderboard)[c])
       IN  /\ Len(rows) = 3
           /\ rows[1]["url"] = "u3"
           /\ ToolOf(rows[2]) = "Unknown Tool" /\ rows[2]["url"] = "u1"
           /\ "tool" \notin DOMAIN rows[3] /\ rows[3]["url"] = "u2"

\* C3: a run of update_leaderboard.main on categories that a previous run
\* wrote under the same overrides file writes the same categories again: the
\* same rows in the same order with the same ranks (and so the same scores),
\* however often it is repeated.
C3_Idempotent ==
  [][ (last.ranked /\ last'.op = "update_leaderboard"
         /\ overrides_file' = overrides_file) =>
        /\ last'.ok
        /\ CategoriesOf(leaderboard') = CategoriesOf(leaderboard) ]_vars

\* A run has re-ranked categories written by a previous run, among them one
\* whose rows the ranking had reordered and one with two rows of equal score.
C3_Witness ==
  /\ RanLeaderboard
  /\ last.again
  /\ \E c \in 1..Len(CategoriesOf(leaderboard)) :
       LET rows == RowsOf(CategoriesOf(leaderboard)[c])
       IN  /\ Len(rows) >= 3
           /\ "url" \in DOMAIN rows[1] /\ rows[1]["url"] # "u1"
           /\ \E i \in 1..(Len(rows) - 1) :
                ScoreOf(ToolOf(rows[i]), load_overrides(overrides_file))
                  = ScoreOf(ToolOf(rows[i + 1]), load_overrides(overrides_file))

\* The floats 84.8, 78.2 and 80.9.
F84_8 == FromHexFloat(<<1, 5, 3, 3, 3, 3, 3, 3, 3, 3, 3, 3, 3, 3>>, 6)
F78_2 == FromHexFloat(<<1, 3, 8, 12, 12, 12, 12, 12, 12, 12, 12, 12, 12, 13>>, 6)
F80_9 == FromHexFloat(<<1, 4, 3, 9, 9, 9, 9, 9, 9, 9, 9, 9, 9, 10>>, 6)

\* A run without overrides has ranked the scenario's category
\* [Udio AI, ElevenLabs, Unknown Tool].
ScenarioRanked ==
  /\ RanLeaderboard
  /\ load_overrides(overrides_file) = JDict(EmptyDict)
  /\ Len(CategoriesOf(leaderboard)) = 2
  /\ LET rows == RowsOf(CategoriesOf(leaderboard)[2])
     IN  /\ Len(rows) = Len(ScenarioRows)
         /\ {Unranked(rows[i]) : i \in 1..Len(rows)}
              = {ScenarioRows[i] : i \in 1..Len(ScenarioRows)}

ScenarioOutput ==
  << [k \in {"tool", "rank"} |-> IF k = "tool" THEN "ElevenLabs" ELSE "1st"],
     [k \in {"tool", "rank"} |-> IF k = "tool" THEN "Udio AI" ELSE "2nd"],
     [k \in {"tool", "rank"} |-> IF k = "tool" THEN "Unknown Tool" ELSE "3rd"] >>

\* C4 as stated: in the scenario score_for yields ElevenLabs = 84.8, Udio AI
\* = 80.9 and Unknown Tool = 70, and the output is ElevenLabs (1st), Udio AI
\* (2nd), Unknown Tool (3rd).
C4_ScenarioAsStated ==
  ScenarioRanked =>
    /\ score_for("ElevenLabs", JDict(EmptyDict)) = F84_8
    /\ score_for("Udio AI", JDict(EmptyDict)) = F80_9
    /\ score_for("Unknown Tool", JDict(EmptyDict)) = FromInt(70)
    /\ RowsOf(CategoriesOf(leaderboard)[2]) = ScenarioOutput

\* C4, amended: in the scenario score_for yields ElevenLabs = 84.8, Udio AI =
\* 78.2 and Unknown Tool = 70, and the output is ElevenLabs (1st), Udio AI
\* (2nd), Unknown Tool (3rd).
C4_Scenario ==
  ScenarioRanked =>
    /\ score_for("ElevenLabs", JDict(EmptyDict)) = F84_8
    /\ score_for("Udio AI", JDict(EmptyDict)) = F78_2
    /\ score_for("Unknown Tool", JDict(EmptyDict)) = FromInt(70)
    /\ RowsOf(CategoriesOf(leaderboard)[2]) = ScenarioOutput

\* The scenario's category has been ranked, ElevenLabs first.
C4_Witness ==
  /\ ScenarioRanked
  /\ ToolOf(RowsOf(CategoriesOf(leaderboard)[2])[1]) = "ElevenLabs"

\* float - float, as sign and magnitude.
FloatDiff(a, b) ==
  IF Less(a, b) THEN [neg |-> TRUE, mag |-> RoundEven(SubBits(b, a))]
  ELSE [neg |-> FALSE, mag |-> RoundEven(SubBits(a, b))]

\* int * float for an int of either sign, as sign and magnitude.
IntTimesFloat(n, w) ==
  IF n < 0 THEN [neg |-> TRUE, mag |-> fmul(0 - n, w)]
  ELSE [neg |-> FALSE, mag |-> fmul(n, w)]

\* |x - y| for two floats given as sign and magnitude (exact).
Distance(x, y) ==
  IF x.neg # y.neg THEN AddBits(x.mag, y.mag)
  ELSE IF Less(x.mag, y.mag) THEN SubBits(y.mag, x.mag)
  ELSE SubBits(x.mag, y.mag)

\* 2^-45, about 2.9e-14.
Tolerance == Zeros(FracBits - 45) \o <<1>>

\* score_for was called for a tool with a default profile with an override
\* of that tool's cost alone.
CostOverridden ==
  /\ call.done
  /\ call.tool_name \in DOMAIN DEFAULTS
  /\ \E c \in 0..MaxSubScore : call.overrides = CostOnly(call.tool_name, c)

OverriddenCost == call.overrides.val[call.tool_name].val["cost"].val

\* The term base[k]*WEIGHTS[k] of the weighted sum.
Term(tool_name, overrides, k) ==
  fmul(MergedProfile(tool_name, overrides)[k].val, WEIGHTS[k])

OtherTermsUnchanged ==
  \A k \in WeightKeySet \ {"cost"} :
    Term(call.tool_name, call.overrides, k)
      = Term(call.tool_name, JDict(EmptyDict), k)

\* C5 as stated: score_for(tool, {tool: {cost: c}}) - score_for(tool, {}) is
\* exactly 0.10 * (c - default cost), and the other four terms are those
\* without the override.
C5_CostDeltaExact ==
  CostOverridden =>
    /\ ~call.raised
    /\ FloatDiff(call.ret, score_for(call.tool_name, JDict(EmptyDict)))
         = IntTimesFloat(OverriddenCost - DEFAULTS[call.tool_name]["cost"],
                         WEIGHTS["cost"])
    /\ OtherTermsUnchanged

\* C5, amended: for an integer cost c in 0..100 the difference is 0.10 * (c -
\* default cost) to within 2^-45, the rounding of the float sum, and the
\* other four terms are those without the override.
C5_CostDelta ==
  CostOverridden =>
    /\ ~call.raised
    /\ ~Less(Tolerance,
             Distance(FloatDiff(call.ret,
                                score_for(call.tool_name, JDict(EmptyDict))),
                      IntTimesFloat(OverriddenCost
                                      - DEFAULTS[call.tool_name]["cost"],
                                    WEIGHTS["cost"])))
    /\ OtherTermsUnchanged

\* score_for has returned for Udio AI with its cost overridden to 10.
C5_Witness ==
  /\ CostOverridden
  /\ call.tool_name = "Udio AI"
  /\ OverriddenCost = 10
  /\ ~call.raised

\* C6: for a tool name that is a key of neither DEFAULTS nor the overrides
\* mapping, the empty name included, score_for returns exactly 70.
C6_UnknownToolScores70 ==
  (/\ call.done
   /\ call.tool_name \notin DOMAIN DEFAULTS
   /\ call.overrides.kind = "dict"
   /\ call.tool_name \notin DOMAIN call.overrides.val) =>
    /\ ~call.raised
    /\ call.ret = FromInt(70)

\* score_for has returned for the empty name under overrides of another tool.
C6_Witness ==
  /\ call.done
  /\ call.tool_name = ""
  /\ call.overrides = CostOnly("Udio AI", 10)

\* The news key of the two documents is the same: absent from both, or
\* present in both with the same list.
SameNews(before, after) ==
  /\ ("news" \in DOMAIN after) = ("news" \in DOMAIN before)
  /\ "news" \in DOMAIN before => after["news"] = before["news"]

\* C7: a run of either job that selects no news item writes the document,
\* with the news it loaded and the timestamp of the run.
C7_EmptySelectionKeepsNews ==
  [][ (/\ last'.op \in {"update_leaderboard", "update_news"}
       /\ NewsOf(last'.pool, last'.op) = <<>>) =>
        /\ last'.ok
        /\ SameNews(leaderboard, leaderboard')
        /\ leaderboard'["timestamp"] = Stamp(last'.now) ]_vars

\* The last step was a run of either job that wrote the document.
RanJob == last.op \in {"update_leaderboard", "update_news"} /\ last.ok

KeywordsOf(job) == IF job = "update_leaderboard" THEN KEYWORDS ELSE NEWS_KEYWORDS

\* The positions of the pool's entries with the title and link of `pair`.
Sharing(pool, pair) ==
  {i \in 1..Len(pool) : pool[i][1] = pair[1] /\ pool[i][2] = pair[2]}

\* The pairs (title, link), both present, that two or more entries share.
SharedPairs(pool) ==
  { <<pool[i][1], pool[i][2]>> : i \in
      {i \in 1..Len(pool) :
         /\ pool[i][1] # <<>>
         /\ pool[i][2] # ""
         /\ Cardinality(Sharing(pool, <<pool[i][1], pool[i][2]>>)) >= 2} }

Lowest(S) == CHOOSE i \in S : \A j \in S : i <= j

\* The earliest entry of the pool with the pair.
FirstInPool(pool, pair) == pool[Lowest(Sharing(pool, pair))]

\* The earliest relevant entry of the pool with the pair, or the earliest
\* entry with it when none is relevant.
FirstInWalk(pool, pair, keywords) ==
  LET relevant == {i \in Sharing(pool, pair) :
                     looks_relevant(pool[i][1], pool[i][4], keywords)}
  IN  IF relevant # {} THEN pool[Lowest(relevant)]
      ELSE pool[Lowest(Sharing(pool, pair))]

\* The positions of the written news items with the pair's title and url.
ItemsOf(pair) ==
  {j \in 1..Len(Get(leaderboard, "news", <<>>)) :
     /\ leaderboard["news"][j].title = pair[1]
     /\ leaderboard["news"][j].url = pair[2]}

NewsObjOf(e) == to_news_obj(e[1], e[2], e[3], e[4])

\* C8 as stated: of the entries that share a title and a link the news list
\* holds at most one item, built from the earliest of them in the pool.
C8_KeepsFirstInPool ==
  RanJob =>
    \A pair \in SharedPairs(last.pool) :
      /\ Cardinality(ItemsOf(pair)) <= 1
      /\ \A j \in ItemsOf(pair) :
           leaderboard["news"][j] = NewsObjOf(FirstInPool(last.pool, pair))

\* C8, amended: of the entries that share a title and a link the news list
\* holds at most one item, built from the first of them in the sorted pool:
\* the earliest relevant one, or the earliest one when none is relevant.
C8_KeepsFirstInWalk ==
  RanJob =>
    \A pair \in SharedPairs(last.pool) :
      /\ Cardinality(ItemsOf(pair)) <= 1
      /\ \A j \in ItemsOf(pair) :
           leaderboard["news"][j]
             = NewsObjOf(FirstInWalk(last.pool, pair, KeywordsOf(last.op)))

\* A run has written the one item of a pool whose two entries share title
\* and link, the later of them the relevant one.
C8_Witness ==
  /\ RanJob
  /\ last.pool = <<EntryA, EntryB>>
  /\ Cardinality(ItemsOf(<<EntryA[1], EntryA[2]>>)) = 1

\* The overrides file is not a mapping from tool names to partial profiles:
\* it is missing, is not JSON, or holds a value of another shape.
NotAProfileMapping(file) ==
  \/ file.kind # "dict"
  \/ \E t \in DOMAIN file.val :
       \/ file.val[t].kind # "dict"
       \/ \E k \in DOMAIN file.val[t].val \cap WeightKeySet :
            file.val[t].val[k].kind # "num"

\* C9: whatever the overrides file is (missing, not JSON, malformed), a run
\* of update_leaderboard.main writes the document, every category ranked as
\* under the empty overrides.
C9_OverridesNeverFatal ==
  (last.op = "update_leaderboard" /\ NotAProfileMapping(overrides_file)) =>
    /\ last.ok
    /\ leaderboard = ReRankAll(leaderboard, JDict(EmptyDict))

\* The rows of `out` are those of `in`, each as often, rank aside.
IsPermutationButRank(in, out) ==
  /\ Len(out) = Len(in)
  /\ \A i \in 1..Len(in) :
       Cardinality({j \in 1..Len(out) : Unranked(out[j]) = Unranked(in[i])})
         = Cardinality({p \in 1..Len(in) : Unranked(in[p]) = Unranked(in[i])})

\* C10: a step changes the categories only by reordering the rows of each
\* and rewriting their ranks: the rows written are a permutation of the rows
\* loaded and every other field of a row keeps its value.
C10_OnlyReordersAndReranks ==
  [][ /\ Len(CategoriesOf(leaderboard')) = Len(CategoriesOf(leaderboard))
      /\ \A c \in 1..Len(CategoriesOf(leaderboard)) :
           IsPermutationButRank(RowsOf(CategoriesOf(leaderboard)[c]),
                                RowsOf(CategoriesOf(leaderboard')[c])) ]_vars

\* A run has reordered the rows of a category: the row loaded last, a known
\* tool's, is written first with its url and the rank 1st.
C10_Witness ==
  /\ RanLeaderboard
  /\ \E c \in 1..Len(CategoriesOf(leaderboard)) :
       LET rows == RowsOf(CategoriesOf(leaderboard)[c])
       IN  /\ Len(rows) = 4
           /\ rows[1]["url"] = "u4"
           /\ ToolOf(rows[1]) = "ElevenLabs"
           /\ rows[1]["rank"] = "1st"

====
